---------------------------- MODULE Spec2Model ----------------------------
(***************************************************************************)
(* State-machine model of the playback orchestration core of               *)
(* mcp-make-sound (src/src/index.ts, latest revision, lines 318-760):      *)
(* the tool-call handler, the per-category throttle (activeRequests), the  *)
(* file stat cache (fileStatCache, cleanupCache, getCachedFileStat) and    *)
(* the supervised child process with its timeout.                          *)
(*                                                                         *)
(* Execution model (Node.js): synchronous code between two suspension      *)
(* points runs without interleaving, so every action below is one such     *)
(* synchronous segment.  Suspension points are the awaited stat(), the     *)
(* await of getCachedFileStat's promise, and the wait for the child        *)
(* process events / the timeout timer.                                     *)
(*                                                                         *)
(* Strings that the code builds from pieces (template literals) are        *)
(* sequences of string tokens; a file path is a sequence of characters; a  *)
(* TTS text is represented by its length.                                  *)
(***************************************************************************)
EXTENDS Integers, Sequences, FiniteSets, TLC

(***************************************************************************)
(* Bounds of the model.                                                    *)
(***************************************************************************)
NumReq == 2        \* request slots that may be in flight together
MaxTime == 4       \* Date.now() ranges over 0..MaxTime

(***************************************************************************)
(* Program constants.  Times are in units of 30 s and the cache capacity   *)
(* is scaled from 100 to 2 so that the capacity cases are reachable.       *)
(***************************************************************************)
MAX_TTS_TEXT_LENGTH == 1000
FILE_CACHE_TTL == 3
MAX_CACHE_SIZE == 2

Req == 1..NumReq

ALLOWED_SYSTEM_SOUNDS ==
  {"Basso", "Blow", "Bottle", "Frog", "Funk", "Glass", "Hero", "Morse",
   "Ping", "Pop", "Purr", "Sosumi", "Submarine", "Tink"}

\* ("Amelie" stands for the accented name of the source)
ALLOWED_TTS_VOICES ==
  {"Albert", "Alice", "Bad News", "Bahh", "Bells", "Boing", "Bruce", "Bubbles",
   "Cellos", "Daniel", "Deranged", "Fred", "Good News", "Hysterical", "Junior",
   "Kathy", "Pipe Organ", "Princess", "Ralph", "Trinoids", "Whisper", "Zarvox",
   "Anna", "Amelie", "Daria", "Eddy", "Fiona", "Jorge", "Juan", "Luca",
   "Marie", "Moira", "Nora", "Rishi", "Samantha", "Serena", "Tessa", "Thomas",
   "Veena", "Victoria", "Xander", "Yelda", "Zosia"}

Categories == {"info", "warning", "error", "system", "tts", "file"}

(***************************************************************************)
(* Inputs: a tool call is [name |-> tool] when the arguments are absent    *)
(* and [name |-> tool, arguments |-> bag] otherwise; a bag is a record     *)
(* holding any of the fields type, name, text, voice, path.                *)
(***************************************************************************)
PathA == <<"/", "a">>
PathB == <<"/", "b">>
PathC == <<"/", "c">>
PathD == <<"/", "d">>
PathRel == <<"r", "/", "p">>

SimpleCalls ==
  { [name |-> t] : t \in {"play_info_sound", "play_warning_sound", "play_error_sound"} }

SystemBags ==
  { [type |-> "system", name |-> "Glass"],
    [type |-> "system", name |-> "glass"],
    [type |-> "system", name |-> ""],
    [type |-> "system"] }

TtsBags ==
  { [type |-> "tts", text |-> MAX_TTS_TEXT_LENGTH],
    [type |-> "tts", text |-> MAX_TTS_TEXT_LENGTH + 1],
    [type |-> "tts", text |-> 0],
    [type |-> "tts"],
    [type |-> "tts", text |-> 2, voice |-> "Samantha"],
    [type |-> "tts", text |-> 2, voice |-> "NotAVoice"],
    [type |-> "tts", text |-> 2, voice |-> ""] }

FileBags ==
  { [type |-> "file", path |-> p] : p \in {PathA, PathB, PathC, PathD, PathRel, <<>>} }
    \cup { [type |-> "file"] }

\* an arguments value that is not an object (a string) is written as a record
\* with the one field primitive
NonObject == [primitive |-> "Glass"]

OtherBags == { [type |-> "bogus"], [name |-> "Glass"], NonObject }

AllCalls ==
  SimpleCalls
    \cup { [name |-> "play_sound", arguments |-> b] :
             b \in SystemBags \cup TtsBags \cup FileBags \cup OtherBags }
    \cup { [name |-> "play_sound"], [name |-> "no_such_tool"] }

(***************************************************************************)
(* JavaScript helpers.                                                     *)
(***************************************************************************)
Has(bag, f) == f \in DOMAIN bag

\* !(args as any).name, !(args as any).path : absent or the empty string
FalsyStr(bag, f) == ~Has(bag, f) \/ bag[f] = ""

\* !(args as any).path for a path given as a character sequence
FalsyPath(bag) == ~Has(bag, "path") \/ Len(bag.path) = 0

\* !(args as any).text for a text given by its length
FalsyText(bag) == ~Has(bag, "text") \/ bag.text = 0

\* mutant: the typeof test is missing
NotAnObjectNever(bag) == FALSE
\* typeof args !== 'object'
NotAnObject(bag) == Has(bag, "primitive")

\* node:path isAbsolute (POSIX): the path starts with a slash
isAbsolute(p) == Len(p) > 0 /\ p[1] = "/"


(***************************************************************************)
(* Error messages (Error.message) and handler results.                     *)
(***************************************************************************)
AlreadyPlayingMsg(c) == <<c, " sound already playing">>
TimedOutMsg == <<"Sound playback timed out">>
FailedWithCodeMsg(code) == <<"Sound playback failed with code ", code>>
SpawnErrorMsg == <<"spawn ENOENT">>
\* the error of the 'error' event child.kill() emits when the signal cannot be sent
KillErrorMsg == <<"kill EPERM">>
UnsupportedSoundMsg(n) == <<"Unsupported system sound: ", n>>
TextTooLongMsg == <<"Text too long (max 1000 characters)">>
PathNotAbsoluteMsg == <<"File path must be absolute">>
FileNotFoundMsg(p) == <<"File not found or inaccessible: ">> \o p
InvalidArgumentsMsg == <<"Invalid arguments provided">>
InvalidTypeMsg == <<"Invalid or missing type. Must be \"system\", \"tts\", or \"file\"">>
ParamRequiredMsg(param, type) ==
  <<"Parameter \"", param, "\" is required when type is \"", type, "\"">>
UnknownToolMsg(n) == <<"Unknown tool: ", n>>

NoResult == [isError |-> FALSE, text |-> <<>>]
\* mutant: the error goes out as a plain text result
ErrorResultUnflagged(msg) == [isError |-> FALSE, text |-> msg]
\* the catch block of the tool-call handler
ErrorResult(msg) == [isError |-> TRUE, text |-> <<"Error playing sound: ">> \o msg]
\* the success returns of the tool-call handler
SuccessResult(call) ==
  [isError |-> FALSE,
   text |-> CASE call.name = "play_info_sound" -> <<"Info sound played successfully">>
              [] call.name = "play_warning_sound" -> <<"Warning sound played successfully">>
              [] call.name = "play_error_sound" -> <<"Error sound played successfully">>
              [] OTHER -> <<call.arguments.type, " sound played successfully">>]

\* the soundType passed to playSound / options.type passed to playCustomSound
Category(call) ==
  CASE call.name = "play_info_sound" -> "info"
    [] call.name = "play_warning_sound" -> "warning"
    [] call.name = "play_error_sound" -> "error"
    [] OTHER -> call.arguments.type

(***************************************************************************)
(* The checks of the play_sound case of the tool-call handler, in order.   *)
(* The value is the message thrown, or <<>> when the call goes on to       *)
(* playCustomSound.                                                        *)
(***************************************************************************)
HandlerValidation(call) ==
  IF ~Has(call, "arguments") \/ NotAnObject(call.arguments) THEN InvalidArgumentsMsg
  ELSE LET args == call.arguments IN
    IF FalsyStr(args, "type") \/ args.type \notin {"system", "tts", "file"}
      THEN InvalidTypeMsg
    ELSE IF args.type = "system" /\ FalsyStr(args, "name")
      THEN ParamRequiredMsg("name", "system")
    ELSE IF args.type = "tts" /\ FalsyText(args)
      THEN ParamRequiredMsg("text", "tts")
    ELSE IF args.type = "file" /\ FalsyPath(args)
      THEN ParamRequiredMsg("path", "file")
    ELSE <<>>

(***************************************************************************)
(* The checks playCustomSound makes inside its try block before any await. *)
(***************************************************************************)
\* mutant: the length test is off by one
TextTooLongOffByOne(n) == n >= MAX_TTS_TEXT_LENGTH
\* text.length > MAX_TTS_TEXT_LENGTH
TextTooLong(n) == n > MAX_TTS_TEXT_LENGTH

\* mutant: the whitelist test ignores the case of the name
IsAllowedSoundAnyCase(n) == n \in ALLOWED_SYSTEM_SOUNDS \cup {"glass"}
\* ALLOWED_SYSTEM_SOUNDS.has(soundName)
IsAllowedSound(n) == n \in ALLOWED_SYSTEM_SOUNDS

CustomValidation(args) ==
  CASE args.type = "system" ->
         IF ~IsAllowedSound(args.name)
           THEN UnsupportedSoundMsg(args.name) ELSE <<>>
    [] args.type = "tts" ->
         IF TextTooLong(args.text) THEN TextTooLongMsg ELSE <<>>
    [] args.type = "file" ->
         IF ~isAbsolute(args.path) THEN PathNotAbsoluteMsg ELSE <<>>

(***************************************************************************)
(* The command line handed to spawn: the executable and its arguments.  An *)
(* argument is [str |-> s] for a string built by the code and              *)
(* [text |-> n] for the caller's text (of length n) passed as it is.       *)
(***************************************************************************)
Str(s) == [str |-> s]
Txt(n) == [text |-> n]

NoCmd == [exe |-> "", args |-> <<>>]

\* mutant: the switch of playSound always takes its default
SoundNameDefault(soundType) == "Glass"
\* the switch of playSound
SoundName(soundType) ==
  CASE soundType = "info" -> "Glass"
    [] soundType = "warning" -> "Purr"
    [] soundType = "error" -> "Sosumi"
    [] OTHER -> "Glass"

\* `/System/Library/Sounds/${soundName}.aiff`
SystemSoundPath(soundName) == <<"/System/Library/Sounds/", soundName, ".aiff">>

\* voice !== undefined && !ALLOWED_TTS_VOICES.has(voice): console.warn is called
WarnsVoice(args) == Has(args, "voice") /\ args.voice \notin ALLOWED_TTS_VOICES

\* mutant: the voice is used as given
FinalVoiceUnchecked(args) == IF Has(args, "voice") THEN args.voice ELSE ""
\* finalVoice; "" stands for undefined as well (both fail the test `finalVoice ?`)
FinalVoice(args) == IF Has(args, "voice") /\ ~WarnsVoice(args) THEN args.voice ELSE ""

\* finalVoice ? ['-v', finalVoice, text] : [text]
SayArgs(args) ==
  LET finalVoice == FinalVoice(args) IN
  IF finalVoice # "" THEN <<Str(<<"-v">>), Str(<<finalVoice>>), Txt(args.text)>>
  ELSE <<Txt(args.text)>>

\* the spawn(...) call each kind of request makes
LaunchCommand(call) ==
  IF call.name # "play_sound"
    THEN [exe |-> "afplay", args |-> <<Str(SystemSoundPath(SoundName(Category(call))))>>]
  ELSE LET options == call.arguments IN
    CASE options.type = "system" ->
           [exe |-> "afplay", args |-> <<Str(SystemSoundPath(options.name))>>]
      [] options.type = "tts" -> [exe |-> "say", args |-> SayArgs(options)]
      [] options.type = "file" -> [exe |-> "afplay", args |-> <<Str(options.path)>>]

\* the request makes playCustomSound log the voice warning
Warns(call) ==
  /\ call.name = "play_sound"
  /\ call.arguments.type = "tts"
  /\ WarnsVoice(call.arguments)

\* the exit codes a close event reports
ExitCodes == {"0", "1"}

\* mutant: the exit code is not looked at
ExitOkAlways(code) == TRUE
\* code === 0
ExitOk(code) == code = "0"

(***************************************************************************)
(* The throttle.                                                           *)
(***************************************************************************)
\* mutant: the throttle test is missing
IsActiveNever(S, c) == FALSE
\* mutant: one lock for all categories
IsActiveAny(S, c) == S # {}
\* mutant: file requests are let through
IsActiveExceptFile(S, c) == c \in S /\ c # "file"
\* activeRequests.has(type)
IsActive(S, c) == c \in S
\* mutant: the category is not put into the set
AcquireNothing(S, c) == S
\* mutant: the test sits inside the try block, so the finally block runs
ThrowInsideTry(S, c) == S \ {c}
\* throw new Error(`${type} sound already playing`) ahead of the try block
ThrowBeforeTry(S, c) == S
\* activeRequests.add(type)
Acquire(S, c) == S \cup {c}
\* mutant: only the file category is given back
ReleaseOnlyFile(S, c) == IF c = "file" THEN S \ {c} ELSE S
\* mutant: the finally block is missing
ReleaseNothing(S, c) == S
\* finally { activeRequests.delete(type) }
Release(S, c) == S \ {c}

(***************************************************************************)
(* The stat cache: a Map, i.e. a sequence of entries in insertion order.   *)
(***************************************************************************)
CacheIndex(cache, k) ==
  IF \E i \in 1..Len(cache) : cache[i].key = k
    THEN CHOOSE i \in 1..Len(cache) : cache[i].key = k
    ELSE 0

\* mutant: the entry of a failed lookup stays in the map
CacheDeleteNothing(cache, k) == cache
\* Map.prototype.delete
CacheDelete(cache, k) == SelectSeq(cache, LAMBDA e : e.key # k)

\* mutant: only the metadata of regular files is stored
CacheSetFilesOnly(cache, k, st, ts, la) ==
  IF st # "file" THEN cache
  ELSE IF \E i \in 1..Len(cache) : cache[i].key = k
    THEN [i \in 1..Len(cache) |->
            IF cache[i].key = k
              THEN [key |-> k, stats |-> st, timestamp |-> ts, lastAccessed |-> la]
              ELSE cache[i]]
  ELSE Append(cache, [key |-> k, stats |-> st, timestamp |-> ts, lastAccessed |-> la])
\* Map.prototype.set: an existing key keeps its position, a new one goes last
CacheSet(cache, k, st, ts, la) ==
  LET e == [key |-> k, stats |-> st, timestamp |-> ts, lastAccessed |-> la]
      i == CacheIndex(cache, k)
  IN IF i = 0 THEN Append(cache, e) ELSE [cache EXCEPT ![i] = e]

\* mutant: a hit renews the entry
TouchRenews(e, t) == [e EXCEPT !.lastAccessed = t, !.timestamp = t]
\* mutant: a hit leaves the entry as it is
TouchNothing(e, t) == e
\* cached.lastAccessed = now
Touch(e, t) == [e EXCEPT !.lastAccessed = t]

\* mutant: whatever the metadata describes passes for a file
IsFileAlways(st) == TRUE
\* stats.isFile()
IsFile(st) == st = "file"

\* mutant: an expired entry that was used not long ago is spared
SweepExpiredUnlessRecent(e, t) ==
  t - e.timestamp > FILE_CACHE_TTL /\ t - e.lastAccessed > FILE_CACHE_TTL
\* the expiry test of cleanupCache
SweepExpired(e, t) == t - e.timestamp > FILE_CACHE_TTL

\* mutant: the hit test admits an entry exactly as old as the TTL
IsFreshInclusive(e, t) == t - e.timestamp <= FILE_CACHE_TTL
\* mutant: the comparison of the hit test is reversed
IsFreshReversed(e, t) == t - e.timestamp > FILE_CACHE_TTL
\* mutant: the hit test forgets the TTL
IsFreshAlways(e, t) == TRUE
\* the hit test of getCachedFileStat
IsFresh(e, t) == t - e.timestamp < FILE_CACHE_TTL

\* Array.prototype.sort((a, b) => a.lastAccessed - b.lastAccessed), stable
RECURSIVE InsertSorted(_, _)
InsertSorted(sorted, e) ==
  IF sorted = <<>> THEN <<e>>
  ELSE IF sorted[Len(sorted)].lastAccessed <= e.lastAccessed THEN Append(sorted, e)
  ELSE Append(InsertSorted(SubSeq(sorted, 1, Len(sorted) - 1), e), sorted[Len(sorted)])

\* mutant: the entries are left in insertion order
SortNothing(s) == s

RECURSIVE SortByLastAccessed(_)
SortByLastAccessed(s) ==
  IF s = <<>> THEN <<>>
  ELSE InsertSorted(SortByLastAccessed(SubSeq(s, 1, Len(s) - 1)), s[Len(s)])

\* mutant: the second phase never runs
OverLimitNever(n) == FALSE
\* the overflow test of cleanupCache
OverLimit(n) == n > MAX_CACHE_SIZE

\* the keys the second phase of cleanupCache deletes
LruVictims(cache) ==
  IF OverLimit(Len(cache))
    THEN LET sortedEntries == SortByLastAccessed(cache)
             toRemove == Len(cache) - MAX_CACHE_SIZE
         IN { sortedEntries[i].key : i \in 1..toRemove }
    ELSE {}

cleanupCache(cache, t) ==
  LET unexpired == SelectSeq(cache, LAMBDA e : ~SweepExpired(e, t))
      victims == LruVictims(unexpired)
  IN SelectSeq(unexpired, LAMBDA e : e.key \notin victims)

\* mutant: an insertion never sweeps first
NeedsCleanupNever(cache) == FALSE
\* the test of getCachedFileStat that runs cleanupCache before an insertion
NeedsCleanup(cache) == Len(cache) >= MAX_CACHE_SIZE

(***************************************************************************)
(* State.                                                                  *)
(***************************************************************************)
VARIABLES
  now,            \* Date.now()
  activeRequests, \* the Set of categories being handled
  fileStatCache,  \* the Map of cache entries, in insertion order
  pc,             \* where each request's handling stands
  input,          \* the tool call of each request
  local,          \* locals kept across awaits: getCachedFileStat's now, stats
  child,          \* the spawned process: command, timer, kill issued, exit code
  outcome,        \* state of the promise wrapping the child process
  result,         \* what the tool-call handler returned
  hist            \* history: what the request has done so far

vars == <<now, activeRequests, fileStatCache, pc, input, local, child, outcome,
          result, hist>>

NoCall == [name |-> ""]
NoLocal == [now |-> 0, stats |-> "none"]
NoChild == [proc |-> "none", timer |-> "none", killed |-> FALSE, cmd |-> NoCmd,
            code |-> "none"]
NoHist == [admitted |-> FALSE, hit |-> FALSE, lookups |-> 0, spawns |-> 0,
           settled |-> 0, warned |-> FALSE]

\* the values the state ranges over
TypeOK ==
  /\ now \in 0..MaxTime
  /\ activeRequests \subseteq Categories
  /\ \A i \in 1..Len(fileStatCache) :
       /\ fileStatCache[i].key \in {PathA, PathB, PathC, PathD}
       /\ fileStatCache[i].stats \in {"file", "dir"}
       /\ fileStatCache[i].timestamp \in 0..now
       /\ fileStatCache[i].lastAccessed \in fileStatCache[i].timestamp..now
       /\ \A j \in 1..Len(fileStatCache) :
            fileStatCache[j].key = fileStatCache[i].key => j = i
  /\ \A r \in Req :
       /\ pc[r] \in {"idle", "awaitStat", "statReturned", "playing", "done"}
       /\ input[r] \in AllCalls \cup {NoCall}
       /\ local[r].now \in 0..now
       /\ local[r].stats \in {"none", "file", "dir", "error"}
       /\ child[r].proc \in {"none", "running", "errored", "closed"}
       /\ child[r].timer \in {"none", "armed", "cleared", "fired"}
       /\ child[r].killed \in BOOLEAN
       /\ child[r].cmd.exe \in {"", "afplay", "say"}
       /\ Len(child[r].cmd.args) \in 0..3
       /\ child[r].code \in ExitCodes \cup {"none"}
       /\ hist[r].warned \in BOOLEAN
       /\ outcome[r] \in {"pending", "success", "failure", "launchError", "timeout"}
       /\ result[r].isError \in BOOLEAN
       /\ hist[r].admitted \in BOOLEAN /\ hist[r].hit \in BOOLEAN
       /\ hist[r].lookups \in 0..1 /\ hist[r].spawns \in 0..1
       /\ hist[r].settled \in 0..1

Init ==
  /\ now = 0
  /\ activeRequests = {}
  /\ fileStatCache = <<>>
  /\ pc = [r \in Req |-> "idle"]
  /\ input = [r \in Req |-> NoCall]
  /\ local = [r \in Req |-> NoLocal]
  /\ child = [r \in Req |-> NoChild]
  /\ outcome = [r \in Req |-> "pending"]
  /\ result = [r \in Req |-> NoResult]
  /\ hist = [r \in Req |-> NoHist]

(***************************************************************************)
(* Building blocks of the synchronous segments.                            *)
(***************************************************************************)
\* the handler's catch block returns the error result: the request is over
Throws(r, call, msg, admitted) ==
  /\ pc' = [pc EXCEPT ![r] = "done"]
  /\ input' = [input EXCEPT ![r] = call]
  /\ result' = [result EXCEPT ![r] = ErrorResult(msg)]
  /\ hist' = [hist EXCEPT ![r].admitted = admitted]
  /\ UNCHANGED <<local, child, outcome>>

\* mutant: no timeout timer is started
SpawnsWithoutTimer(r, call) ==
  /\ pc' = [pc EXCEPT ![r] = "playing"]
  /\ input' = [input EXCEPT ![r] = call]
  /\ child' = [child EXCEPT ![r] = [proc |-> "running", timer |-> "none",
                                    killed |-> FALSE, cmd |-> LaunchCommand(call),
                                    code |-> "none"]]
  /\ hist' = [hist EXCEPT ![r].admitted = TRUE, ![r].spawns = @ + 1,
                          ![r].warned = Warns(call)]
  /\ UNCHANGED <<local, outcome, result>>

\* spawn(...), new Promise(...) with setTimeout and the two once() handlers
Spawns(r, call) ==
  /\ pc' = [pc EXCEPT ![r] = "playing"]
  /\ input' = [input EXCEPT ![r] = call]
  /\ child' = [child EXCEPT ![r] = [proc |-> "running", timer |-> "armed",
                                    killed |-> FALSE, cmd |-> LaunchCommand(call),
                                    code |-> "none"]]
  /\ hist' = [hist EXCEPT ![r].admitted = TRUE, ![r].spawns = @ + 1,
                          ![r].warned = Warns(call)]
  /\ UNCHANGED <<local, outcome, result>>

(***************************************************************************)
(* playSound(soundType), called by the handler for play_info_sound,        *)
(* play_warning_sound and play_error_sound: no await inside, so the whole  *)
(* function, its finally block included, is one segment.                   *)
(***************************************************************************)
playSound(r, call) ==
  LET soundType == Category(call) IN
  IF IsActive(activeRequests, soundType)
    THEN /\ Throws(r, call, AlreadyPlayingMsg(soundType), FALSE)
         /\ activeRequests' = ThrowBeforeTry(activeRequests, soundType)
         /\ UNCHANGED fileStatCache
    ELSE /\ Spawns(r, call)
         /\ activeRequests' = Release(Acquire(activeRequests, soundType), soundType)
         /\ UNCHANGED fileStatCache

(***************************************************************************)
(* getCachedFileStat up to its return (cache hit) or to the awaited stat.  *)
(***************************************************************************)
getCachedFileStatBegin(r, call, filePath) ==
  LET i == CacheIndex(fileStatCache, filePath) IN
  IF i # 0 /\ IsFresh(fileStatCache[i], now)
    THEN /\ fileStatCache' = [fileStatCache EXCEPT ![i] = Touch(@, now)]
         /\ local' = [local EXCEPT ![r] = [now |-> now, stats |-> fileStatCache[i].stats]]
         /\ pc' = [pc EXCEPT ![r] = "statReturned"]
         /\ hist' = [hist EXCEPT ![r].admitted = TRUE, ![r].hit = TRUE]
    ELSE /\ UNCHANGED fileStatCache
         /\ local' = [local EXCEPT ![r] = [now |-> now, stats |-> "none"]]
         /\ pc' = [pc EXCEPT ![r] = "awaitStat"]
         /\ hist' = [hist EXCEPT ![r].admitted = TRUE, ![r].lookups = @ + 1]

\* mutant: a file request goes to the filesystem before the throttle test
playCustomSoundGateLast(r, call) ==
  LET options == call.arguments IN
  IF IsActive(activeRequests, options.type)
    THEN /\ pc' = [pc EXCEPT ![r] = "done"]
         /\ input' = [input EXCEPT ![r] = call]
         /\ result' = [result EXCEPT ![r] = ErrorResult(AlreadyPlayingMsg(options.type))]
         /\ hist' = [hist EXCEPT ![r].lookups =
                                   IF options.type = "file" THEN 1 ELSE 0]
         /\ UNCHANGED <<local, child, outcome, activeRequests, fileStatCache>>
  ELSE IF CustomValidation(options) # <<>>
    THEN /\ Throws(r, call, CustomValidation(options), TRUE)
         /\ activeRequests' = Release(Acquire(activeRequests, options.type), options.type)
         /\ UNCHANGED fileStatCache
  ELSE IF options.type = "file"
    THEN /\ getCachedFileStatBegin(r, call, options.path)
         /\ input' = [input EXCEPT ![r] = call]
         /\ activeRequests' = Acquire(activeRequests, options.type)
         /\ UNCHANGED <<child, outcome, result>>
  ELSE /\ Spawns(r, call)
       /\ activeRequests' = Release(Acquire(activeRequests, options.type), options.type)
       /\ UNCHANGED fileStatCache

(***************************************************************************)
(* playCustomSound(options) up to its first await or to its return.        *)
(***************************************************************************)
playCustomSound(r, call) ==
  LET options == call.arguments IN
  IF IsActive(activeRequests, options.type)
    THEN /\ Throws(r, call, AlreadyPlayingMsg(options.type), FALSE)
         /\ activeRequests' = ThrowBeforeTry(activeRequests, options.type)
         /\ UNCHANGED fileStatCache
  ELSE IF CustomValidation(options) # <<>>
    THEN /\ Throws(r, call, CustomValidation(options), TRUE)
         /\ activeRequests' = Release(Acquire(activeRequests, options.type), options.type)
         /\ UNCHANGED fileStatCache
  ELSE IF options.type = "file"
    THEN /\ getCachedFileStatBegin(r, call, options.path)
         /\ input' = [input EXCEPT ![r] = call]
         /\ activeRequests' = Acquire(activeRequests, options.type)
         /\ UNCHANGED <<child, outcome, result>>
  ELSE /\ Spawns(r, call)
       /\ activeRequests' = Release(Acquire(activeRequests, options.type), options.type)
       /\ UNCHANGED fileStatCache

(***************************************************************************)
(* The CallToolRequestSchema handler, from its invocation to its first     *)
(* suspension (or to its return when it throws before suspending).         *)
(***************************************************************************)
CallTool(r, call) ==
  /\ pc[r] = "idle"
  /\ UNCHANGED now
  /\ IF call.name \in {"play_info_sound", "play_warning_sound", "play_error_sound"}
       THEN playSound(r, call)
     ELSE IF call.name = "play_sound"
       THEN IF HandlerValidation(call) # <<>>
              THEN /\ Throws(r, call, HandlerValidation(call), FALSE)
                   /\ UNCHANGED <<activeRequests, fileStatCache>>
              ELSE playCustomSound(r, call)
     ELSE /\ Throws(r, call, UnknownToolMsg(call.name), FALSE)
          /\ UNCHANGED <<activeRequests, fileStatCache>>

(***************************************************************************)
(* The awaited stat(filePath) settles and getCachedFileStat runs to its    *)
(* end: res is what the filesystem answers ("file", "dir": the metadata of *)
(* a regular file, of something else; "ENOENT": the lookup fails).         *)
(***************************************************************************)
StatResults == {"file", "dir", "ENOENT"}

getCachedFileStatEnd(r, res) ==
  LET filePath == input[r].arguments.path IN
  /\ pc[r] = "awaitStat"
  /\ IF res # "ENOENT"
       THEN /\ fileStatCache' =
                 CacheSet(IF NeedsCleanup(fileStatCache)
                            THEN cleanupCache(fileStatCache, now)
                            ELSE fileStatCache,
                          filePath, res, local[r].now, local[r].now)
            /\ local' = [local EXCEPT ![r].stats = res]
       ELSE /\ fileStatCache' = CacheDelete(fileStatCache, filePath)
            /\ local' = [local EXCEPT ![r].stats = "error"]
  /\ pc' = [pc EXCEPT ![r] = "statReturned"]
  /\ UNCHANGED <<now, activeRequests, input, child, outcome, result, hist>>

\* mutant: a failed lookup is tried again
playCustomSoundResumeRetry(r) ==
  LET call == input[r]
      filePath == call.arguments.path
  IN
  /\ pc[r] = "statReturned"
  /\ IF local[r].stats = "error" /\ hist[r].lookups < 2
       THEN /\ pc' = [pc EXCEPT ![r] = "awaitStat"]
            /\ hist' = [hist EXCEPT ![r].lookups = @ + 1]
            /\ UNCHANGED <<activeRequests, input, local, child, outcome, result>>
       ELSE /\ IF local[r].stats # "file"
                 THEN Throws(r, call, FileNotFoundMsg(filePath), TRUE)
                 ELSE Spawns(r, call)
            /\ activeRequests' = Release(activeRequests, call.arguments.type)
  /\ UNCHANGED <<now, fileStatCache>>

(***************************************************************************)
(* playCustomSound resumes after `await getCachedFileStat(filePath)`:      *)
(* the isFile() test, the catch that rewrites every error, the spawn, the  *)
(* promise, and the finally block.                                         *)
(***************************************************************************)
playCustomSoundResume(r) ==
  LET call == input[r]
      filePath == call.arguments.path
  IN
  /\ pc[r] = "statReturned"
  /\ IF local[r].stats = "error" \/ ~IsFile(local[r].stats)
       THEN Throws(r, call, FileNotFoundMsg(filePath), TRUE)
       ELSE Spawns(r, call)
  /\ activeRequests' = Release(activeRequests, call.arguments.type)
  /\ UNCHANGED <<now, fileStatCache>>

(***************************************************************************)
(* The promise around the child process: resolve and reject act only on a  *)
(* pending promise.  The handler's continuation (its return or its catch)  *)
(* touches nothing but the request's own result and is part of the step.   *)
(***************************************************************************)
\* mutant: the last resolve/reject wins
SettleUnguarded(r, o, res) ==
  /\ outcome' = [outcome EXCEPT ![r] = o]
  /\ result' = [result EXCEPT ![r] = res]
  /\ pc' = [pc EXCEPT ![r] = "done"]
  /\ hist' = [hist EXCEPT ![r].settled = @ + 1]

Settle(r, o, res) ==
  IF outcome[r] = "pending"
    THEN /\ outcome' = [outcome EXCEPT ![r] = o]
         /\ result' = [result EXCEPT ![r] = res]
         /\ pc' = [pc EXCEPT ![r] = "done"]
         /\ hist' = [hist EXCEPT ![r].settled = @ + 1]
    ELSE UNCHANGED <<outcome, result, pc, hist>>

\* mutant: the timer is left running
ClearTimeoutForgotten(t) == t
\* clearTimeout(timeout)
ClearTimeout(t) == IF t = "armed" THEN "cleared" ELSE t

\* child.once('close', (code) => ...)
OnClose(r, code) ==
  /\ child[r].proc \in {"running", "errored"}
  /\ child' = [child EXCEPT ![r].proc = "closed",
                            ![r].timer = ClearTimeout(@),
                            ![r].code = code]
  /\ IF ExitOk(code)
       THEN Settle(r, "success", SuccessResult(input[r]))
       ELSE Settle(r, "failure", ErrorResult(FailedWithCodeMsg(code)))
  /\ UNCHANGED <<now, activeRequests, fileStatCache, input, local>>

\* child.once('error', (error) => ...)
OnError(r) ==
  /\ child[r].proc = "running"
  /\ child' = [child EXCEPT ![r].proc = "errored",
                            ![r].timer = ClearTimeout(@)]
  /\ Settle(r, "launchError", ErrorResult(SpawnErrorMsg))
  /\ UNCHANGED <<now, activeRequests, fileStatCache, input, local>>

(***************************************************************************)
(* What child.kill() meets: the signal is sent (or the process is already  *)
(* gone, which kill() passes over in silence), or the system refuses the   *)
(* signal.  In the second case kill() does not throw: it emits 'error' on  *)
(* the child before it returns.                                            *)
(***************************************************************************)
KillResults == {"sent", "EPERM"}

\* setTimeout(() => { child.kill(); reject(...) }, PROCESS_TIMEOUT_MS)
\* The timer is armed only as long as neither once() handler has run, so an
\* 'error' emitted by kill() runs the once('error') handler inside this step,
\* before the callback's own reject.
OnTimeout(r, kill) ==
  /\ child[r].timer = "armed"
  /\ IF kill = "sent"
       THEN /\ child' = [child EXCEPT ![r].timer = "fired", ![r].killed = TRUE]
            /\ Settle(r, "timeout", ErrorResult(TimedOutMsg))
       ELSE /\ child' = [child EXCEPT ![r].timer = "fired", ![r].killed = TRUE,
                                      ![r].proc = "errored"]
            /\ Settle(r, "launchError", ErrorResult(KillErrorMsg))
  /\ UNCHANGED <<now, activeRequests, fileStatCache, input, local>>

(***************************************************************************)
(* Environment.                                                            *)
(***************************************************************************)
\* the response has been sent and the child is gone: the slot serves a new call
Retire(r) ==
  /\ pc[r] = "done"
  /\ child[r].proc \in {"none", "closed"}
  /\ pc' = [pc EXCEPT ![r] = "idle"]
  /\ input' = [input EXCEPT ![r] = NoCall]
  /\ local' = [local EXCEPT ![r] = NoLocal]
  /\ child' = [child EXCEPT ![r] = NoChild]
  /\ outcome' = [outcome EXCEPT ![r] = "pending"]
  /\ result' = [result EXCEPT ![r] = NoResult]
  /\ hist' = [hist EXCEPT ![r] = NoHist]
  /\ UNCHANGED <<now, activeRequests, fileStatCache>>

\* time passes
Tick ==
  /\ now < MaxTime
  /\ now' = now + 1
  /\ UNCHANGED <<activeRequests, fileStatCache, pc, input, local, child, outcome,
                 result, hist>>

\* setInterval(cleanupCache, CACHE_CLEANUP_INTERVAL)
IntervalCleanup ==
  /\ fileStatCache' = cleanupCache(fileStatCache, now)
  /\ UNCHANGED <<now, activeRequests, pc, input, local, child, outcome, result, hist>>

\* the steps of the requests in the slots R, for tool calls drawn from C
RequestSteps(R, C) ==
  \/ \E r \in R, call \in C : CallTool(r, call)
  \/ \E r \in R, res \in StatResults : getCachedFileStatEnd(r, res)
  \/ \E r \in R : playCustomSoundResume(r)
  \/ \E r \in R, code \in ExitCodes : OnClose(r, code)
  \/ \E r \in R : OnError(r)
  \/ \E r \in R, kill \in KillResults : OnTimeout(r, kill)
  \/ \E r \in R : Retire(r)

(***************************************************************************)
(* Spec: concurrent requests through the throttle and the process          *)
(* supervisor, all within one clock unit, with one cacheable path.         *)
(***************************************************************************)
GateCalls ==
  { [name |-> "play_info_sound"],
    [name |-> "play_sound", arguments |-> [type |-> "system", name |-> "Glass"]],
    [name |-> "play_sound", arguments |-> [type |-> "system", name |-> "glass"]],
    [name |-> "play_sound", arguments |-> [type |-> "tts", text |-> MAX_TTS_TEXT_LENGTH]],
    [name |-> "play_sound", arguments |-> [type |-> "tts", text |-> MAX_TTS_TEXT_LENGTH + 1]],
    [name |-> "play_sound", arguments |-> [type |-> "file", path |-> PathA]],
    [name |-> "play_sound", arguments |-> [type |-> "file", path |-> PathRel]],
    [name |-> "play_sound", arguments |-> [type |-> "file"]],
    [name |-> "play_sound"],
    [name |-> "no_such_tool"] }

Next == RequestSteps(Req, GateCalls)

Spec == Init /\ [][Next]_vars

(***************************************************************************)
(* FairSpec: Spec with what the runtime guarantees: an armed timer fires   *)
(* unless it is cleared, a started stat() settles, and a settled promise's *)
(* continuation runs.  Nothing is assumed about the child process.         *)
(***************************************************************************)
Fairness ==
  \A r \in Req :
    /\ WF_vars(\E kill \in KillResults : OnTimeout(r, kill))
    /\ WF_vars(\E res \in StatResults : getCachedFileStatEnd(r, res))
    /\ WF_vars(playCustomSoundResume(r))

\* the calls of FairSpec: one that spawns at once, file calls that wait for a
\* lookup first, and one rejected before anything is started
LiveCalls ==
  { [name |-> "play_info_sound"],
    [name |-> "play_sound", arguments |-> [type |-> "file", path |-> PathA]],
    [name |-> "play_sound", arguments |-> [type |-> "file", path |-> PathRel]] }

LiveNext == RequestSteps(Req, LiveCalls)

FairSpec == Init /\ [][LiveNext]_vars /\ Fairness

(***************************************************************************)
(* CacheSpec: file requests for several paths, one at a time, with the     *)
(* clock and the interval sweep.                                           *)
(***************************************************************************)
CacheCalls ==
  { [name |-> "play_sound", arguments |-> [type |-> "file", path |-> p]] :
      p \in {PathA, PathB, PathC} }

CacheNext == RequestSteps({1}, CacheCalls) \/ Tick \/ IntervalCleanup

CacheSpec == Init /\ [][CacheNext]_vars

(***************************************************************************)
(* FillSpec: file requests, one at a time, for more paths than the cache   *)
(* can hold after an insertion, with the interval sweep; the clock stands  *)
(* still.                                                                  *)
(***************************************************************************)
FillCalls ==
  { [name |-> "play_sound", arguments |-> [type |-> "file", path |-> p]] :
      p \in {PathA, PathB, PathC, PathD} }

FillNext == RequestSteps({1}, FillCalls) \/ IntervalCleanup

FillSpec == Init /\ [][FillNext]_vars

(***************************************************************************)
(* SweepSpec: two clients sending file requests concurrently, each for its *)
(* own path, with the clock and the interval sweep.                        *)
(***************************************************************************)
FileCall(p) == [name |-> "play_sound", arguments |-> [type |-> "file", path |-> p]]

SweepNext ==
  \/ RequestSteps({1}, {FileCall(PathA)})
  \/ RequestSteps({2}, {FileCall(PathB)})
  \/ Tick
  \/ IntervalCleanup

SweepSpec == Init /\ [][SweepNext]_vars

(***************************************************************************)
(* ToolSpec: one request at a time, for every kind of tool call.           *)
(***************************************************************************)
ToolNext == RequestSteps({1}, AllCalls)

ToolSpec == Init /\ [][ToolNext]_vars

(***************************************************************************)
(* Vocabulary of the properties.                                           *)
(***************************************************************************)
\* the request's child process has been launched and is still running
Running(r) == child[r].proc = "running"

\* the request has been admitted and has not yet released its token
HoldsToken(r) == pc[r] \in {"awaitStat", "statReturned"}

\* the call gets past the handler's own checks and reaches the throttle
ReachesGate(call) ==
  \/ call.name \in {"play_info_sound", "play_warning_sound", "play_error_sound"}
  \/ call.name = "play_sound" /\ HandlerValidation(call) = <<>>

\* the play_sound call breaks a validation rule; the message of the first one
FailsValidation(call) ==
  /\ call.name = "play_sound"
  /\ \/ HandlerValidation(call) # <<>>
     \/ CustomValidation(call.arguments) # <<>>

ValidationMsg(call) ==
  IF HandlerValidation(call) # <<>> THEN HandlerValidation(call)
  ELSE CustomValidation(call.arguments)

\* the entries of a cache, as a set
Entries(cache) == { cache[i] : i \in 1..Len(cache) }

\* the entry is older than the TTL at time t
Expired(e, t) == t - e.timestamp > FILE_CACHE_TTL

\* the entries a sweep run now would find unexpired, and those it would keep
UnexpiredNow == { e \in Entries(fileStatCache) : ~Expired(e, now) }
KeptNow == Entries(cleanupCache(fileStatCache, now))

\* the request starts in this step
Starts(r) == pc[r] = "idle" /\ pc'[r] # "idle"

\* the request is a play_sound call whose arguments carry this type
IsCustom(r, type) ==
  /\ input[r].name = "play_sound"
  /\ Has(input[r], "arguments")
  /\ Has(input[r].arguments, "type")
  /\ input[r].arguments.type = type

\* the request has started nothing: no token, no lookup, no process
StartedNothing(r) ==
  /\ ~hist[r].admitted /\ ~hist[r].hit
  /\ hist[r].lookups = 0 /\ hist[r].spawns = 0
  /\ child[r] = NoChild

(***************************************************************************)
(* C1: for every category, at most one launched playback process of that   *)
(* category is running at any time.                                        *)
(***************************************************************************)
C1_NoOverlapPerCategory ==
  \A c \in Categories :
    Cardinality({ r \in Req : Running(r) /\ Category(input[r]) = c }) <= 1

(***************************************************************************)
(* C2: a request that reaches the throttle while its category is in        *)
(* activeRequests is rejected in that same step with "<category> sound     *)
(* already playing": it launches nothing, looks nothing up and leaves the  *)
(* set alone; a request that finds its category absent is admitted.        *)
(***************************************************************************)
C2_FailFast ==
  [][\A r \in Req :
       (Starts(r) /\ ReachesGate(input'[r])) =>
         LET c == Category(input'[r]) IN
         IF c \in activeRequests
           THEN /\ pc'[r] = "done"
                /\ result'[r] = ErrorResult(AlreadyPlayingMsg(c))
                /\ ~hist'[r].admitted
                /\ hist'[r].spawns = 0 /\ hist'[r].lookups = 0
                /\ child'[r].proc = "none"
                /\ activeRequests' = activeRequests
           ELSE hist'[r].admitted
    ]_vars

\* a file request is rejected while another one holds the token, and ...
C2_Witness ==
  \E r1, r2 \in Req :
    /\ HoldsToken(r1)
    /\ pc[r2] = "done"
    /\ result[r2] = ErrorResult(AlreadyPlayingMsg("file"))

(***************************************************************************)
(* C3: while a request's process is supervised (launched, outcome not yet  *)
(* produced) the request's category is in activeRequests.                  *)
(***************************************************************************)
C3_TokenHeldWhileSupervised ==
  \A r \in Req : pc[r] = "playing" => Category(input[r]) \in activeRequests

(***************************************************************************)
(* C4: a token is in activeRequests only on behalf of a request that was   *)
(* admitted and has not produced its result yet; so once a request has     *)
(* its result (whatever the exit path) its category is not held because of *)
(* it, and the next request of the category is admitted.                   *)
(***************************************************************************)
C4_ReleasedOnEveryExit ==
  \A c \in activeRequests :
    \E r \in Req : HoldsToken(r) /\ Category(input[r]) = c

\* a file request failed on its lookup and the next file request is admitted
C4_Witness ==
  \E r1, r2 \in Req :
    /\ pc[r1] = "done"
    /\ hist[r1].lookups = 1
    /\ result[r1] = ErrorResult(FileNotFoundMsg(PathA))
    /\ HoldsToken(r2)
    /\ "file" \in activeRequests

(***************************************************************************)
(* C5: every request eventually has its result, and every token is         *)
(* eventually released, provided timers fire and lookups return.           *)
(***************************************************************************)
C5_EventuallyDone ==
  /\ \A r \in Req : (pc[r] # "idle") ~> (pc[r] = "done")
  /\ \A c \in Categories : (c \in activeRequests) ~> (c \notin activeRequests)

\* a playback ended by the timeout alone
C5_Witness ==
  \E r \in Req : pc[r] = "done" /\ outcome[r] = "timeout" /\ Running(r)

(***************************************************************************)
(* C6: a play_sound request that breaks a validation rule is answered with *)
(* that rule's error, whatever activeRequests holds, and has never put a   *)
(* token into activeRequests.                                              *)
(***************************************************************************)
C6_ValidationBeforeGate ==
  \A r \in Req :
    (pc[r] = "done" /\ FailsValidation(input[r])) =>
      /\ result[r] = ErrorResult(ValidationMsg(input[r]))
      /\ ~hist[r].admitted

(***************************************************************************)
(* C7: the stat cache never holds more than MAX_CACHE_SIZE entries.        *)
(***************************************************************************)
C7_CacheWithinMax == Len(fileStatCache) <= MAX_CACHE_SIZE

(***************************************************************************)
(* C8: a call of getCachedFileStat for a path whose entry is present and   *)
(* younger than FILE_CACHE_TTL returns that entry's metadata at once and   *)
(* performs no filesystem lookup.                                          *)
(***************************************************************************)
C8_HitWithinTtl ==
  [][\A r \in Req :
       (Starts(r) /\ pc'[r] \in {"awaitStat", "statReturned"}) =>
         LET i == CacheIndex(fileStatCache, input'[r].arguments.path) IN
         (i # 0 /\ now - fileStatCache[i].timestamp < FILE_CACHE_TTL) =>
           /\ pc'[r] = "statReturned"
           /\ local'[r].stats = fileStatCache[i].stats
           /\ hist'[r].lookups = 0
    ]_vars

\* a hit served after the clock has moved on since the entry was created
C8_Witness ==
  \E r \in Req :
    /\ pc[r] = "statReturned" /\ hist[r].hit /\ hist[r].lookups = 0
    /\ \E i \in 1..Len(fileStatCache) :
         /\ fileStatCache[i].key = input[r].arguments.path
         /\ fileStatCache[i].lastAccessed > fileStatCache[i].timestamp
         /\ fileStatCache[i].stats = local[r].stats

(***************************************************************************)
(* C9: an entry older than FILE_CACHE_TTL is never served: the call starts *)
(* a filesystem lookup, and when the lookup is over the stale entry is     *)
(* gone: replaced by the fresh metadata, stamped with the call's time,     *)
(* or removed when the lookup failed.                                      *)
(***************************************************************************)
C9_StaleNeverServed ==
  [][\A r \in Req :
       /\ (Starts(r) /\ pc'[r] \in {"awaitStat", "statReturned"}) =>
            LET i == CacheIndex(fileStatCache, input'[r].arguments.path) IN
            (i # 0 /\ now - fileStatCache[i].timestamp > FILE_CACHE_TTL) =>
              /\ pc'[r] = "awaitStat"
              /\ ~hist'[r].hit /\ hist'[r].lookups = 1
       /\ (pc[r] = "awaitStat" /\ pc'[r] = "statReturned") =>
            LET j == CacheIndex(fileStatCache', input[r].arguments.path) IN
            IF local'[r].stats = "error"
              THEN j = 0
              ELSE /\ j # 0
                   /\ fileStatCache'[j].stats = local'[r].stats
                   /\ fileStatCache'[j].timestamp = local[r].now
    ]_vars

\* a lookup is pending for a path whose expired entry is still in the map
C9_Witness ==
  \E r \in Req :
    /\ pc[r] = "awaitStat"
    /\ \E i \in 1..Len(fileStatCache) :
         /\ fileStatCache[i].key = input[r].arguments.path
         /\ local[r].now - fileStatCache[i].timestamp > FILE_CACHE_TTL

C11_TimeoutKillsAndReports ==
  [][\A r \in Req :
       (child[r].timer = "armed" /\ child'[r].timer = "fired") =>
         /\ child'[r].killed
         /\ outcome'[r] = "timeout"
         /\ result'[r] = ErrorResult(TimedOutMsg)
    ]_vars

(***************************************************************************)
(* C12: when close or error comes while the timer is still armed, that     *)
(* event alone gives the result: exit code 0 the success text, any other   *)
(* code "Sound playback failed with code <code>", an error event the       *)
(* error it carries.                                                       *)
(***************************************************************************)
C12_EventDecides ==
  [][\A r \in Req :
       (child[r].timer = "armed" /\ child'[r].timer = "cleared") =>
         /\ pc'[r] = "done"
         /\ result'[r] =
              CASE child'[r].proc = "errored" -> ErrorResult(SpawnErrorMsg)
                [] child'[r].proc = "closed" /\ child'[r].code = "0" ->
                     SuccessResult(input[r])
                [] child'[r].proc = "closed" /\ child'[r].code # "0" ->
                     ErrorResult(FailedWithCodeMsg(child'[r].code))
    ]_vars

\* a playback that ended with a non-zero exit code before the timeout
C12_Witness ==
  \E r \in Req :
    /\ pc[r] = "done" /\ child[r].timer = "cleared"
    /\ child[r].proc = "closed" /\ child[r].code = "1"
    /\ outcome[r] = "failure"
    /\ result[r] = ErrorResult(FailedWithCodeMsg("1"))

C14_HandlerNeverRaises ==
  \A r \in Req :
    /\ pc[r] = "done" =>
         \/ /\ outcome[r] = "success"
            /\ result[r] = SuccessResult(input[r])
         \/ /\ outcome[r] # "success"
            /\ result[r].isError
            /\ Len(result[r].text) >= 2
            /\ result[r].text[1] = "Error playing sound: "
    /\ pc[r] # "done" => result[r] = NoResult

\* an unknown tool name and a rejected file request, both answered with errors
C14_Witness ==
  \E r1, r2 \in Req :
    /\ pc[r1] = "done" /\ result[r1] = ErrorResult(UnknownToolMsg("no_such_tool"))
    /\ pc[r2] = "done" /\ result[r2] = ErrorResult(FileNotFoundMsg(PathA))

(***************************************************************************)
(* C15: categories are independent.  A request that reaches the throttle   *)
(* is admitted whenever its own category is not in activeRequests,         *)
(* whatever else the set holds, and no step of a request adds or removes   *)
(* a token of another category.                                            *)
(***************************************************************************)
C15_CategoriesIndependent ==
  [][\A r \in Req :
       (pc'[r] # pc[r] \/ child'[r] # child[r]) =>
         LET call == IF pc[r] = "idle" THEN input'[r] ELSE input[r] IN
         IF ReachesGate(call)
           THEN LET c == Category(call) IN
                /\ activeRequests' \ {c} = activeRequests \ {c}
                /\ (Starts(r) /\ c \notin activeRequests) =>
                     /\ hist'[r].admitted
                     /\ result'[r] # ErrorResult(AlreadyPlayingMsg(c))
           ELSE activeRequests' = activeRequests
    ]_vars

\* a tts playback in flight while a file request holds the file token
C15_Witness ==
  \E r1, r2 \in Req :
    /\ HoldsToken(r1) /\ activeRequests = {"file"}
    /\ pc[r2] = "playing" /\ Category(input[r2]) = "tts" /\ Running(r2)

(***************************************************************************)
(* C16: a system request launches a process only for a name that is        *)
(* present and is, letter for letter, one of ALLOWED_SYSTEM_SOUNDS, and    *)
(* then it plays that very name; for a missing, empty or other name it     *)
(* ends at once with an error and launches nothing.                        *)
(***************************************************************************)
C16_SystemWhitelist ==
  \A r \in Req :
    IsCustom(r, "system") =>
      LET args == input[r].arguments IN
      IF Has(args, "name") /\ args.name \in ALLOWED_SYSTEM_SOUNDS
        THEN hist[r].spawns = 1 =>
               child[r].cmd = [exe |-> "afplay",
                               args |-> <<Str(SystemSoundPath(args.name))>>]
        ELSE /\ pc[r] = "done"
             /\ result[r].isError
             /\ hist[r].spawns = 0 /\ child[r] = NoChild

\* a name that differs from a whitelisted one by case only is refused
C16_Witness ==
  \E r \in Req :
    /\ IsCustom(r, "system") /\ input[r].arguments = [type |-> "system", name |-> "glass"]
    /\ result[r] = ErrorResult(UnsupportedSoundMsg("glass"))
    /\ child[r] = NoChild

C18_VoiceFallback ==
  \A r \in Req :
    (IsCustom(r, "tts") /\ Has(input[r].arguments, "voice")) =>
      LET args == input[r].arguments IN
      /\ hist[r].spawns = 1
      /\ pc[r] = "done" => outcome[r] # "pending"
      /\ child[r].cmd.exe = "say"
      /\ IF args.voice \in ALLOWED_TTS_VOICES
           THEN /\ child[r].cmd.args = <<Str(<<"-v">>), Str(<<args.voice>>), Txt(args.text)>>
                /\ ~hist[r].warned
           ELSE /\ child[r].cmd.args = <<Txt(args.text)>>
                /\ hist[r].warned

\* a text spoken with the default voice after the voice given was dropped
C18_Witness ==
  \E r \in Req :
    /\ IsCustom(r, "tts") /\ Has(input[r].arguments, "voice")
    /\ input[r].arguments.voice = "NotAVoice"
    /\ hist[r].warned
    /\ child[r].cmd = [exe |-> "say", args |-> <<Txt(2)>>]
    /\ outcome[r] = "success"

(***************************************************************************)
(* C19: a file request whose path is not absolute is rejected with "File   *)
(* path must be absolute"; it performs no lookup, reads and changes no     *)
(* cache entry and launches no process.                                    *)
(***************************************************************************)
C19_RelativePathRejected ==
  \A r \in Req :
    (IsCustom(r, "file") /\ Has(input[r].arguments, "path")
       /\ input[r].arguments.path = PathRel) =>
      /\ pc[r] = "done"
      /\ result[r] = ErrorResult(PathNotAbsoluteMsg)
      /\ ~hist[r].hit /\ hist[r].lookups = 0
      /\ hist[r].spawns = 0 /\ child[r] = NoChild

(***************************************************************************)
(* C20: a play_sound call whose arguments are absent or not an object, or  *)
(* whose type is missing or not one of system, tts, file, ends in the step *)
(* it arrives in with an error; it takes no token, does no lookup and      *)
(* launches nothing.  A call of a tool that is not declared ends with an   *)
(* error in the same way.                                                  *)
(***************************************************************************)
C20_MalformedCallRejected ==
  [][\A r \in Req :
       Starts(r) =>
         LET call == input'[r]
             noArgs == ~Has(call, "arguments") \/ Has(call.arguments, "primitive")
             rejected(msg) ==
               /\ pc'[r] = "done"
               /\ result'[r] = ErrorResult(msg)
               /\ StartedNothing(r)'
               /\ activeRequests' = activeRequests
               /\ fileStatCache' = fileStatCache
         IN
         /\ (call.name = "play_sound" /\ noArgs) => rejected(InvalidArgumentsMsg)
         /\ (call.name = "play_sound" /\ ~noArgs
               /\ (~Has(call.arguments, "type")
                     \/ call.arguments.type \notin {"system", "tts", "file"})) =>
              rejected(InvalidTypeMsg)
         /\ call.name \notin {"play_info_sound", "play_warning_sound",
                              "play_error_sound", "play_sound"} =>
              rejected(UnknownToolMsg(call.name))
    ]_vars

\* a call whose arguments are a string has been refused
C20_Witness ==
  \E r \in Req :
    /\ pc[r] = "done" /\ input[r] = [name |-> "play_sound", arguments |-> NonObject]
    /\ result[r] = ErrorResult(InvalidArgumentsMsg)
    /\ StartedNothing(r)

(***************************************************************************)
(* C21: a file request whose metadata, looked up or taken from the cache,  *)
(* does not describe a regular file ends with an error and launches no     *)
(* process.                                                                *)
(***************************************************************************)
C21_NonFileRejected ==
  \A r \in Req :
    /\ (IsCustom(r, "file") /\ local[r].stats = "dir") =>
         /\ pc[r] \in {"statReturned", "done"}
         /\ hist[r].spawns = 0 /\ child[r] = NoChild
         /\ pc[r] = "done" =>
              result[r] = ErrorResult(FileNotFoundMsg(input[r].arguments.path))
    /\ (IsCustom(r, "file") /\ hist[r].spawns = 1) => local[r].stats = "file"

\* a request refused on the cached metadata of a directory
C21_Witness ==
  \E r \in Req :
    /\ pc[r] = "done" /\ IsCustom(r, "file")
    /\ hist[r].hit /\ hist[r].lookups = 0 /\ local[r].stats = "dir"
    /\ result[r].isError /\ child[r] = NoChild

(***************************************************************************)
(* C22: when the filesystem lookup for a path fails, the cache afterwards  *)
(* holds no entry for that path and every other entry is as it was; the    *)
(* request then ends with an error and launches no process.                *)
(***************************************************************************)
C22_FailedLookupRemovesEntry ==
  [][\A r \in Req :
       /\ (pc[r] = "awaitStat" /\ pc'[r] = "statReturned" /\ local'[r].stats = "error") =>
            LET filePath == input[r].arguments.path IN
            /\ \A i \in 1..Len(fileStatCache') : fileStatCache'[i].key # filePath
            /\ fileStatCache' = SelectSeq(fileStatCache, LAMBDA e : e.key # filePath)
       /\ (pc[r] = "statReturned" /\ local[r].stats = "error" /\ pc'[r] # pc[r]) =>
            /\ pc'[r] = "done"
            /\ result'[r] = ErrorResult(FileNotFoundMsg(input[r].arguments.path))
            /\ hist'[r].spawns = 0 /\ child'[r] = NoChild
            /\ fileStatCache' = fileStatCache
    ]_vars

\* a failed lookup has left the entries of the other paths in the cache
C22_Witness ==
  \E r \in Req :
    /\ pc[r] = "done" /\ IsCustom(r, "file") /\ local[r].stats = "error"
    /\ hist[r].lookups = 1 /\ child[r] = NoChild
    /\ Len(fileStatCache) = MAX_CACHE_SIZE
    /\ \A i \in 1..Len(fileStatCache) : fileStatCache[i].key # input[r].arguments.path

(***************************************************************************)
(* C23: nothing is retried: a request launches at most one process and     *)
(* makes at most one filesystem lookup, and once it has its result it      *)
(* launches nothing and looks nothing up any more.                         *)
(***************************************************************************)
C23_NoRetry ==
  [][\A r \in Req :
       /\ hist'[r].spawns <= 1 /\ hist'[r].lookups <= 1
       /\ (pc[r] # "idle" /\ pc'[r] # "idle") =>
            /\ hist'[r].spawns >= hist[r].spawns
            /\ hist'[r].lookups >= hist[r].lookups
       /\ (pc[r] = "done" /\ pc'[r] # "idle") =>
            /\ hist'[r].spawns = hist[r].spawns
            /\ hist'[r].lookups = hist[r].lookups
            /\ child'[r].cmd = child[r].cmd
            /\ pc'[r] = "done"
    ]_vars

\* a file playback that failed after one lookup and one launch
C23_Witness ==
  \E r \in Req :
    /\ pc[r] = "done" /\ IsCustom(r, "file")
    /\ outcome[r] = "failure"
    /\ hist[r].lookups = 1 /\ hist[r].spawns = 1

(***************************************************************************)
(* C24: the command launched is fixed by the request: afplay on            *)
(* /System/Library/Sounds/Glass.aiff, Purr.aiff, Sosumi.aiff for           *)
(* play_info_sound, play_warning_sound, play_error_sound; afplay on        *)
(* /System/Library/Sounds/N.aiff for a system request with name N; afplay  *)
(* with the given path as its only argument for a file request.            *)
(***************************************************************************)
C24_CommandOfRequest ==
  \A r \in Req :
    hist[r].spawns = 1 =>
      LET call == input[r]
          afplay(arg) == [exe |-> "afplay", args |-> <<[str |-> arg]>>]
          sound(n) == <<"/System/Library/Sounds/", n, ".aiff">>
      IN
      CASE call.name = "play_info_sound" -> child[r].cmd = afplay(sound("Glass"))
        [] call.name = "play_warning_sound" -> child[r].cmd = afplay(sound("Purr"))
        [] call.name = "play_error_sound" -> child[r].cmd = afplay(sound("Sosumi"))
        [] IsCustom(r, "system") -> child[r].cmd = afplay(sound(call.arguments.name))
        [] IsCustom(r, "file") -> child[r].cmd = afplay(call.arguments.path)
        [] IsCustom(r, "tts") -> child[r].cmd.exe = "say"

\* the warning sound is playing
C24_Witness ==
  \E r \in Req :
    /\ pc[r] = "playing" /\ input[r].name = "play_warning_sound"
    /\ child[r].cmd.args = <<Str(<<"/System/Library/Sounds/", "Purr", ".aiff">>)>>

(***************************************************************************)
(* C25: the throttle's test and insertion are one step of the request: no  *)
(* step of another request comes between them, so two requests never both  *)
(* find a category free and both hold it.                                  *)
(***************************************************************************)
C25_AtomicCheckAndSet ==
  /\ \A c \in Categories :
       Cardinality({ r \in Req : HoldsToken(r) /\ Category(input[r]) = c }) <= 1
  /\ \A r \in Req : HoldsToken(r) => Category(input[r]) \in activeRequests

\* a file request holds the token and the other one was refused at the gate
C25_Witness ==
  \E r1, r2 \in Req :
    /\ pc[r1] = "awaitStat" /\ "file" \in activeRequests
    /\ pc[r2] = "done" /\ ~hist[r2].admitted
    /\ input[r2] = [name |-> "play_sound", arguments |-> [type |-> "file", path |-> PathA]]

(***************************************************************************)
(* C26: right after any run of cleanupCache, from an insertion or from the *)
(* interval, the cache holds at most MAX_CACHE_SIZE entries and none older *)
(* than the TTL.  (A sweep can run in every state, so this is stated of    *)
(* the sweep of every reachable cache.)                                    *)
(***************************************************************************)
C26_SweepResult ==
  /\ [](LET swept == cleanupCache(fileStatCache, now) IN
         /\ Len(swept) <= MAX_CACHE_SIZE
         /\ \A i \in 1..Len(swept) : now - swept[i].timestamp <= FILE_CACHE_TTL)
  /\ [][(fileStatCache' # fileStatCache /\ pc' = pc) =>
          /\ Len(fileStatCache') <= MAX_CACHE_SIZE
          /\ \A i \in 1..Len(fileStatCache') :
               now - fileStatCache'[i].timestamp <= FILE_CACHE_TTL
       ]_vars

\* a cache above its limit with an expired entry in it, after a sweep has run
C26_Witness ==
  /\ Len(fileStatCache) > MAX_CACHE_SIZE
  /\ \E e \in Entries(fileStatCache) : Expired(e, now)
  /\ \E e \in Entries(fileStatCache) : ~Expired(e, now)

(***************************************************************************)
(* C27: a sweep that finds more than MAX_CACHE_SIZE unexpired entries      *)
(* removes exactly the surplus, taking the entries with the smallest       *)
(* lastAccessed: no entry it keeps was accessed before one it evicts.      *)
(***************************************************************************)
C27_LruEviction ==
  LET evicted == UnexpiredNow \ KeptNow IN
  Cardinality(UnexpiredNow) > MAX_CACHE_SIZE =>
    /\ Cardinality(evicted) = Cardinality(UnexpiredNow) - MAX_CACHE_SIZE
    /\ KeptNow \subseteq UnexpiredNow
    /\ \A e \in evicted, k \in KeptNow : k.lastAccessed >= e.lastAccessed

\* three unexpired entries, the oldest of which was used after the second
C27_Witness ==
  /\ Len(fileStatCache) = MAX_CACHE_SIZE + 1
  /\ \A e \in Entries(fileStatCache) : ~Expired(e, now)
  /\ fileStatCache[1].lastAccessed > fileStatCache[2].lastAccessed
  /\ fileStatCache[1] \in KeptNow /\ fileStatCache[2] \notin KeptNow

(***************************************************************************)
(* C28: the sweep is TTL first, LRU second: every expired entry goes,      *)
(* however recently it was used; unexpired entries go only when more than  *)
(* MAX_CACHE_SIZE of them are left, and otherwise all of them stay as they *)
(* are, in their order.                                                    *)
(***************************************************************************)
C28_TtlBeforeLru ==
  LET swept == cleanupCache(fileStatCache, now) IN
  /\ \A e \in Entries(fileStatCache) : Expired(e, now) => e \notin Entries(swept)
  /\ Entries(swept) \subseteq UnexpiredNow
  /\ Cardinality(UnexpiredNow) <= MAX_CACHE_SIZE =>
       swept = SelectSeq(fileStatCache, LAMBDA e : ~Expired(e, now))

\* an expired entry that was used after an unexpired one, which stays
C28_Witness ==
  \E old \in Entries(fileStatCache), young \in Entries(fileStatCache) :
    /\ Expired(old, now) /\ ~Expired(young, now)
    /\ old.lastAccessed > young.lastAccessed
    /\ old \notin KeptNow /\ young \in KeptNow

(***************************************************************************)
(* C29: a cache hit sets the entry's lastAccessed to the time of the hit,  *)
(* and of two unexpired entries the one used later is never evicted for    *)
(* capacity while the other one is kept.                                   *)
(***************************************************************************)
C29_HitRefreshesLru ==
  /\ [][\A r \in Req :
          (Starts(r) /\ hist'[r].hit) =>
            LET i == CacheIndex(fileStatCache, input'[r].arguments.path) IN
            /\ i # 0
            /\ Len(fileStatCache') = Len(fileStatCache)
            /\ fileStatCache'[i].key = fileStatCache[i].key
            /\ fileStatCache'[i].lastAccessed = now
       ]_vars
  /\ [](\A a \in UnexpiredNow, b \in UnexpiredNow :
          (a.lastAccessed > b.lastAccessed /\ b \in KeptNow) => a \in KeptNow)

\* the entry just hit is the oldest in the map and outlives a younger one
C29_Witness ==
  \E r \in Req :
    /\ pc[r] = "statReturned" /\ hist[r].hit
    /\ Cardinality(UnexpiredNow) > MAX_CACHE_SIZE
    /\ fileStatCache[1].key = input[r].arguments.path
    /\ fileStatCache[1].lastAccessed = now
    /\ fileStatCache[1].timestamp < fileStatCache[2].timestamp
    /\ fileStatCache[1] \in KeptNow /\ fileStatCache[2] \notin KeptNow

C32_OneLookupAtATime ==
  /\ [](Cardinality({ r \in Req : pc[r] = "awaitStat" }) <= 1)
  /\ [][\A r \in Req :
          (pc[r] = "awaitStat" /\ pc'[r] = "awaitStat"
             /\ fileStatCache' # fileStatCache) =>
            /\ fileStatCache' = cleanupCache(fileStatCache, now)
            /\ pc' = pc /\ hist' = hist
       ]_vars

\* a pending lookup whose stale entry the sweep has removed, the request for
\* the other path having been refused meanwhile
C32_Witness ==
  \E r1, r2 \in Req :
    /\ pc[r1] = "awaitStat"
    /\ CacheIndex(fileStatCache, input[r1].arguments.path) = 0
    /\ local[r1].now = now /\ now > FILE_CACHE_TTL
    /\ pc[r2] = "done" /\ ~hist[r2].admitted
    /\ Has(input[r2], "arguments") /\ Has(input[r2].arguments, "path")
    /\ input[r2].arguments.path # input[r1].arguments.path

(***************************************************************************)
(* C33: a category leaves activeRequests only in a step of the request     *)
(* that put it there; a request refused as already playing leaves the set  *)
(* as it is.                                                               *)
(***************************************************************************)
C33_OnlyHolderReleases ==
  [][/\ \A c \in activeRequests \ activeRequests' :
          \E r \in Req :
            /\ HoldsToken(r) /\ hist[r].admitted /\ Category(input[r]) = c
            /\ ~HoldsToken(r)'
     /\ \A r \in Req :
          (Starts(r) /\ ~hist'[r].admitted) => activeRequests' = activeRequests
    ]_vars

\* the holder is about to go on after a request with a relative path was
\* refused at the gate
C33_Witness ==
  \E r1, r2 \in Req :
    /\ pc[r1] = "statReturned" /\ activeRequests = {"file"}
    /\ pc[r2] = "done"
    /\ input[r2] = [name |-> "play_sound", arguments |-> [type |-> "file", path |-> PathRel]]
    /\ result[r2] = ErrorResult(AlreadyPlayingMsg("file"))

(***************************************************************************)
(* C34: a cache hit changes the hit entry's lastAccessed and nothing else  *)
(* in the cache: metadata, creation timestamp, the other entries and the   *)
(* size stay; so no entry is ever used TTL or more after its creation.     *)
(***************************************************************************)
C34_HitChangesOnlyLastAccessed ==
  /\ [][\A r \in Req :
          (Starts(r) /\ hist'[r].hit) =>
            LET i == CacheIndex(fileStatCache, input'[r].arguments.path) IN
            /\ fileStatCache' = [fileStatCache EXCEPT ![i].lastAccessed = now]
            /\ now - fileStatCache'[i].timestamp < FILE_CACHE_TTL
       ]_vars
  /\ [](\A e \in Entries(fileStatCache) : e.lastAccessed - e.timestamp < FILE_CACHE_TTL)

\* a hit in the last clock unit of the entry's life, another entry beside it
C34_Witness ==
  \E r \in Req :
    /\ pc[r] = "statReturned" /\ hist[r].hit
    /\ Len(fileStatCache) >= 2
    /\ \E e \in Entries(fileStatCache) :
         /\ e.key = input[r].arguments.path
         /\ e.lastAccessed = now
         /\ now - e.timestamp = FILE_CACHE_TTL - 1

(***************************************************************************)
(* C35: a file request refused with "file sound already playing" makes no  *)
(* filesystem lookup, launches no process and leaves the stat cache as it  *)
(* is.                                                                     *)
(***************************************************************************)
C35_GateRejectionTouchesNothing ==
  [][\A r \in Req :
       (Starts(r) /\ result'[r] = ErrorResult(AlreadyPlayingMsg("file"))) =>
         /\ pc'[r] = "done"
         /\ StartedNothing(r)'
         /\ local'[r] = NoLocal
         /\ fileStatCache' = fileStatCache
    ]_vars

\* a request for a cached path was refused while the holder goes on with a hit
C35_Witness ==
  \E r1, r2 \in Req :
    /\ pc[r1] = "statReturned" /\ hist[r1].hit
    /\ Len(fileStatCache) = 1 /\ fileStatCache[1].key = PathA
    /\ pc[r2] = "done" /\ input[r2] = input[r1]
    /\ result[r2] = ErrorResult(AlreadyPlayingMsg("file"))
    /\ StartedNothing(r2)

(***************************************************************************)
(* C36: the metadata of something that is not a regular file is cached     *)
(* like any other: the lookup stores it, a later request for the path      *)
(* within the TTL is served from the entry, with no lookup, and is         *)
(* refused again, and the refusal leaves the entry in the cache.           *)
(***************************************************************************)
C36_NonFileCached ==
  [][\A r \in Req :
       /\ (pc[r] = "awaitStat" /\ pc'[r] = "statReturned" /\ local'[r].stats = "dir") =>
            LET j == CacheIndex(fileStatCache', input[r].arguments.path) IN
            /\ j # 0
            /\ fileStatCache'[j].stats = "dir"
            /\ fileStatCache'[j].timestamp = local[r].now
       /\ (Starts(r) /\ IsCustom(r, "file")') =>
            LET i == CacheIndex(fileStatCache, input'[r].arguments.path) IN
            (i # 0 /\ fileStatCache[i].stats = "dir"
               /\ now - fileStatCache[i].timestamp < FILE_CACHE_TTL) =>
              /\ hist'[r].hit /\ hist'[r].lookups = 0
              /\ local'[r].stats = "dir"
              /\ CacheIndex(fileStatCache', input'[r].arguments.path) = i
       /\ (pc[r] = "statReturned" /\ local[r].stats = "dir" /\ pc'[r] # pc[r]) =>
            /\ pc'[r] = "done"
            /\ result'[r] = ErrorResult(FileNotFoundMsg(input[r].arguments.path))
            /\ fileStatCache' = fileStatCache
    ]_vars

\* refused a second time, from the entry, which is still in the cache
C36_Witness ==
  \E r \in Req :
    /\ pc[r] = "done" /\ hist[r].hit /\ hist[r].lookups = 0
    /\ result[r] = ErrorResult(FileNotFoundMsg(PathB))
    /\ \E e \in Entries(fileStatCache) :
         /\ e.key = PathB /\ e.stats = "dir"
         /\ e.lastAccessed > e.timestamp

(***************************************************************************)
(* C37: an entry is served as a hit exactly when its age is below the TTL  *)
(* and swept as expired exactly when its age is above it: an entry exactly *)
(* as old as the TTL is neither served nor swept, and whatever a sweep     *)
(* removes as expired would not have been served.                          *)
(***************************************************************************)
C37_ExpiryBoundary ==
  /\ \A r \in Req :
       /\ (pc[r] = "statReturned" /\ hist[r].hit) =>
            \A e \in Entries(fileStatCache) :
              e.key = input[r].arguments.path =>
                local[r].now - e.timestamp < FILE_CACHE_TTL
       /\ pc[r] = "awaitStat" =>
            \A e \in Entries(fileStatCache) :
              e.key = input[r].arguments.path =>
                local[r].now - e.timestamp >= FILE_CACHE_TTL
  /\ \A e \in Entries(fileStatCache) :
       /\ now - e.timestamp > FILE_CACHE_TTL => e \notin KeptNow
       /\ (now - e.timestamp <= FILE_CACHE_TTL
             /\ Cardinality(UnexpiredNow) <= MAX_CACHE_SIZE) => e \in KeptNow
       /\ (e \notin KeptNow /\ Cardinality(UnexpiredNow) <= MAX_CACHE_SIZE) =>
            ~(now - e.timestamp < FILE_CACHE_TTL)

\* the request missed on an entry exactly as old as the TTL, which a sweep
\* run at the same time leaves in the cache
C37_Witness ==
  \E r \in Req :
    /\ pc[r] = "awaitStat" /\ local[r].now = now
    /\ \E e \in Entries(fileStatCache) :
         /\ e.key = input[r].arguments.path
         /\ now - e.timestamp = FILE_CACHE_TTL
         /\ e \in KeptNow

=============================================================================
